---------------------------- MODULE Spec2Model ----------------------------
(***************************************************************************)
(* Pattern-Go-UT-Helper (src/app.py): the request handlers upload_source   *)
(* and generate_unit_tests, the prompt they build, the single outbound     *)
(* call to the generative-language API and the mapping of its reply to an  *)
(* HTTP response.                                                          *)
(*                                                                         *)
(* Text is a sequence of one-character strings, so that strip, endswith,   *)
(* slicing and json.dumps are computed and not assumed.  An Optional[str]  *)
(* is a record [isNone, v].  A JSON value is a record [t, v] with t the    *)
(* Python type the decoder yields for it.                                  *)
(***************************************************************************)
EXTENDS Integers, Sequences, FiniteSets, TLC

VARIABLES
  pc,         \* where each request's handler is: "idle", "awaiting", "done"
  endpoint,   \* the route each request came in on
  payload,    \* the request model each handler was called with
  locals,     \* the local variables of each call of generate_unit_tests
  outbound,   \* the bodies each call has POSTed upstream, in order
  upstream,   \* how the upstream answered each call's POST
  response,   \* what each request was answered
  overlapped  \* the requests that were awaiting when each call resumed

vars == <<pc, endpoint, payload, locals, outbound, upstream, response, overlapped>>

---------------------------------------------------------------------------
(* Bounds of the model.                                                    *)

\* Requests in flight at once in SpecConc.
NumReqs == 2

\* Longest run of blanks put around a field value or an upstream text.
MaxPad == 1

\* Length of the long string of the oversized upstream payload.
LongLen == 900

---------------------------------------------------------------------------
(* Program constants.                                                      *)

\* raise HTTPException(status_code=400, ...)
BadRequest == 400

\* if r.status_code != 200
HttpOk == 200

\* raise HTTPException(status_code=502, ...)
BadGateway == 502

\* json.dumps(data)[:800]
DiagLimit == 800

\* httpx.Timeout(60.0, read=60.0)
TimeoutSeconds == 60

\* payload.additional_context or "None provided"
FallbackContext ==
  <<"N","o","n","e"," ","p","r","o","v","i","d","e","d">>

\* ... or "Upstream error"
FallbackMessage ==
  <<"U","p","s","t","r","e","a","m"," ","e","r","r","o","r">>

\* f"Unexpected API response: {...}"
DiagPrefix ==
  <<"U","n","e","x","p","e","c","t","e","d"," ","A","P","I"," ","r","e","s",
     "p","o","n","s","e",":"," ">>

\* file_name.endswith('.go')
GoSuffix ==
  <<".","g","o">>

\* The literal pieces of the prompt f-string, in order, between its fields.
Seg1 ==
  <<"\n","Y","o","u"," ","a","r","e"," ","a","n"," ","e","x","p","e","r","t",
     " ","G","o"," ","d","e","v","e","l","o","p","e","r"," ","t","a","s","k",
     "e","d"," ","w","i","t","h"," ","g","e","n","e","r","a","t","i","n","g",
     " ","u","n","i","t"," ","t","e","s","t","s"," ","b","a","s","e","d"," ",
     "o","n"," ","a"," ","s","p","e","c","i","f","i","c"," ","p","a","t","t",
     "e","r","n",".","\n","\n","P","A","T","T","E","R","N"," ","D","E","F","I",
     "N","I","T","I","O","N",":","\n","P","a","t","t","e","r","n"," ","N","a",
     "m","e",":"," ">>

Seg2 ==
  <<"\n","P","a","t","t","e","r","n"," ","C","o","n","t","e","n","t",":","\n">>

Seg3 ==
  <<"\n","\n","S","O","U","R","C","E"," ","C","O","D","E"," ","T","O"," ","T",
     "E","S","T",":","\n","F","i","l","e"," ","N","a","m","e",":"," ">>

Seg4 ==
  <<"\n">>

Seg5 ==
  <<"\n","\n","A","D","D","I","T","I","O","N","A","L"," ","C","O","N","T","E",
     "X","T",":","\n">>

Seg6 ==
  <<"\n","\n","I","N","S","T","R","U","C","T","I","O","N","S",":","\n","1",
     "."," ","A","n","a","l","y","z","e"," ","t","h","e"," ","p","r","o","v",
     "i","d","e","d"," ","p","a","t","t","e","r","n"," ","t","o"," ","u","n",
     "d","e","r","s","t","a","n","d"," ","t","h","e"," ","t","e","s","t","i",
     "n","g"," ","m","e","t","h","o","d","o","l","o","g","y","\n","2","."," ",
     "S","t","u","d","y"," ","t","h","e"," ","s","o","u","r","c","e"," ","c",
     "o","d","e"," ","s","t","r","u","c","t","u","r","e",","," ","f","u","n",
     "c","t","i","o","n","s",","," ","a","n","d"," ","i","n","t","e","r","f",
     "a","c","e","s","\n","3","."," ","G","e","n","e","r","a","t","e"," ","c",
     "o","m","p","r","e","h","e","n","s","i","v","e"," ","u","n","i","t"," ",
     "t","e","s","t","s"," ","f","o","l","l","o","w","i","n","g"," ","t","h",
     "e"," ","p","a","t","t","e","r","n","'","s"," ","s","t","y","l","e"," ",
     "a","n","d"," ","c","o","n","v","e","n","t","i","o","n","s","\n","4",".",
     " ","I","n","c","l","u","d","e"," ","t","e","s","t"," ","c","a","s","e",
     "s"," ","f","o","r",":","\n"," "," "," ","-"," ","H","a","p","p","y"," ",
     "p","a","t","h"," ","s","c","e","n","a","r","i","o","s","\n"," "," "," ",
     "-"," ","E","d","g","e"," ","c","a","s","e","s","\n"," "," "," ","-"," ",
     "E","r","r","o","r"," ","c","o","n","d","i","t","i","o","n","s","\n"," ",
     " "," ","-"," ","M","o","c","k"," ","u","s","a","g","e"," ","(","i","f",
     " ","s","h","o","w","n"," ","i","n"," ","p","a","t","t","e","r","n",")",
     "\n","5","."," ","E","n","s","u","r","e"," ","t","e","s","t","s"," ","a",
     "r","e"," ","i","d","i","o","m","a","t","i","c"," ","G","o"," ","a","n",
     "d"," ","f","o","l","l","o","w"," ","t","h","e"," ","p","a","t","t","e",
     "r","n","'","s"," ","a","p","p","r","o","a","c","h","\n","6","."," ","P",
     "r","o","v","i","d","e"," ","O","N","L","Y"," ","t","h","e"," ","g","e",
     "n","e","r","a","t","e","d"," ","t","e","s","t"," ","c","o","d","e",",",
     " ","n","o"," ","e","x","p","l","a","n","a","t","i","o","n","s","\n","\n",
     "G","e","n","e","r","a","t","e"," ","t","h","e"," ","u","n","i","t"," ",
     "t","e","s","t","s",":","\n">>

\* The keys the handler reads from the upstream payload.
K_candidates ==
  <<"c","a","n","d","i","d","a","t","e","s">>

K_content ==
  <<"c","o","n","t","e","n","t">>

K_parts ==
  <<"p","a","r","t","s">>

K_text ==
  <<"t","e","x","t">>

K_error ==
  <<"e","r","r","o","r">>

K_message ==
  <<"m","e","s","s","a","g","e">>

---------------------------------------------------------------------------
(* Text: str.strip, str.endswith, slicing, truthiness.                     *)

\* The characters str.strip() removes (the ASCII ones of str.isspace).
Whitespace == {" ", "\t", "\n", "\r", "\f"}

IsSpace(c) == c \in Whitespace

\* s.strip()
Strip(s) ==
  IF \A k \in DOMAIN s : IsSpace(s[k])
    THEN << >>
    ELSE LET lo == CHOOSE k \in DOMAIN s :
                     /\ ~IsSpace(s[k])
                     /\ \A j \in 1..(k - 1) : IsSpace(s[j])
             hi == CHOOSE k \in DOMAIN s :
                     /\ ~IsSpace(s[k])
                     /\ \A j \in (k + 1)..Len(s) : IsSpace(s[j])
         IN  SubSeq(s, lo, hi)

\* bool(s) of a str
Truthy(s) == Len(s) > 0

\* (suffix in s) in place of s.endswith(suffix)
HasInside(s, suffix) ==
  \E a \in 0..(Len(s) - Len(suffix)) : SubSeq(s, a + 1, a + Len(suffix)) = suffix

\* s.endswith(suffix)
EndsWith(s, suffix) ==
  /\ Len(suffix) <= Len(s)
  /\ SubSeq(s, Len(s) - Len(suffix) + 1, Len(s)) = suffix

\* s[:n]
Prefix(s, n) == SubSeq(s, 1, IF Len(s) < n THEN Len(s) ELSE n)

\* Optional[str]
NoneValue == [isNone |-> TRUE, v |-> << >>]

Some(s) == [isNone |-> FALSE, v |-> s]

\* (x or default) for an Optional[str] x
OrDefault(x, default) == IF x.isNone \/ ~Truthy(x.v) THEN default ELSE x.v

---------------------------------------------------------------------------
(* JSON values as r.json() yields them, and the Python operations the      *)
(* handler applies to them.  An operation that can raise yields            *)
(* [exc, v]: exc = "none" and the value, or the exception's name.          *)

JNull == [t |-> "null", v |-> << >>]

JNum(n) == [t |-> "num", v |-> n]

JStr(s) == [t |-> "str", v |-> s]

JArr(items) == [t |-> "arr", v |-> items]

\* members: a sequence of [k |-> key, val |-> value], keys distinct
JObj(members) == [t |-> "obj", v |-> members]

Member(key, value) == [k |-> key, val |-> value]

Ok(value) == [exc |-> "none", v |-> value]

Raise(name) == [exc |-> name, v |-> JNull]

HasKey(j, key) == \E n \in DOMAIN j.v : j.v[n].k = key

Lookup(j, key) == j.v[CHOOSE n \in DOMAIN j.v : j.v[n].k = key].val

\* j[key] with a str key
GetItem(j, key) ==
  IF j.t = "obj"
    THEN IF HasKey(j, key) THEN Ok(Lookup(j, key)) ELSE Raise("KeyError")
    ELSE Raise("TypeError")

\* j[0]
GetFirst(j) ==
  CASE j.t = "arr" -> IF Len(j.v) > 0 THEN Ok(j.v[1]) ELSE Raise("IndexError")
    [] j.t = "str" -> IF Len(j.v) > 0 THEN Ok(JStr(<<j.v[1]>>))
                                      ELSE Raise("IndexError")
    [] j.t = "obj" -> Raise("KeyError")
    [] OTHER -> Raise("TypeError")

\* s.lstrip(): a strip that leaves the trailing whitespace
LStrip(s) ==
  IF \A k \in DOMAIN s : IsSpace(s[k])
    THEN << >>
    ELSE SubSeq(s, CHOOSE k \in DOMAIN s :
                     /\ ~IsSpace(s[k])
                     /\ \A j \in 1..(k - 1) : IsSpace(s[j]), Len(s))

\* j.lstrip() in place of j.strip()
LStripValue(j) ==
  IF j.t = "str" THEN Ok(JStr(LStrip(j.v))) ELSE Raise("AttributeError")

\* j.strip()
StripValue(j) ==
  IF j.t = "str" THEN Ok(JStr(Strip(j.v))) ELSE Raise("AttributeError")

\* j.get(key): None when the key is missing
DictGet(j, key) ==
  IF j.t = "obj"
    THEN IF HasKey(j, key) THEN Ok(Lookup(j, key)) ELSE Ok(JNull)
    ELSE Raise("AttributeError")

\* bool(j)
TruthyValue(j) ==
  CASE j.t = "null" -> FALSE
    [] j.t = "num" -> j.v # 0
    [] OTHER -> Len(j.v) > 0

\* The decimal digits of a natural number.
RECURSIVE Digits(_)
Digits(n) ==
  LET d == <<"0", "1", "2", "3", "4", "5", "6", "7", "8", "9">>[(n % 10) + 1]
  IN  IF n < 10 THEN <<d>> ELSE Digits(n \div 10) \o <<d>>

\* json.dumps of one character of a str
EscapeChar(c) ==
  CASE c = "\"" -> <<"\\", "\"">>
    [] c = "\\" -> <<"\\", "\\">>
    [] c = "\n" -> <<"\\", "n">>
    [] c = "\r" -> <<"\\", "r">>
    [] c = "\t" -> <<"\\", "t">>
    [] c = "\f" -> <<"\\", "f">>
    [] OTHER -> <<c>>

RECURSIVE Escape(_)
Escape(s) ==
  IF Len(s) = 0 THEN << >>
  ELSE IF Len(s) = 1 THEN EscapeChar(s[1])
  ELSE LET h == Len(s) \div 2
       IN  Escape(SubSeq(s, 1, h)) \o Escape(SubSeq(s, h + 1, Len(s)))

Quoted(s) == <<"\"">> \o Escape(s) \o <<"\"">>

\* json.dumps(j), with the default separators ", " and ": "
RECURSIVE json_dumps(_)
RECURSIVE DumpItems(_)
RECURSIVE DumpMembers(_)
DumpItems(items) ==
  IF Len(items) = 0 THEN << >>
  ELSE IF Len(items) = 1 THEN json_dumps(items[1])
  ELSE json_dumps(items[1]) \o <<",", " ">> \o DumpItems(Tail(items))

DumpMembers(ms) ==
  LET one(m) == Quoted(m.k) \o <<":", " ">> \o json_dumps(m.val)
  IN  IF Len(ms) = 0 THEN << >>
      ELSE IF Len(ms) = 1 THEN one(ms[1])
      ELSE one(ms[1]) \o <<",", " ">> \o DumpMembers(Tail(ms))

json_dumps(j) ==
  CASE j.t = "null" -> <<"n", "u", "l", "l">>
    [] j.t = "num" -> Digits(j.v)
    [] j.t = "str" -> Quoted(j.v)
    [] j.t = "arr" -> <<"[">> \o DumpItems(j.v) \o <<"]">>
    [] j.t = "obj" -> <<"{">> \o DumpMembers(j.v) \o <<"}">>

---------------------------------------------------------------------------
(* Responses.  Every response is [kind, status_code, content]:             *)
(*   "json"           the handler returned; content is the body            *)
(*   "HTTPException"  the handler raised it; content is its detail, a JSON *)
(*                    value                                                *)
(*   "unhandled"      another exception left the handler; the server       *)
(*                    answers 500; content names the exception             *)

\* detail of the 400 of generate_unit_tests
DetailAllFields ==
  <<"A","l","l"," ","f","i","e","l","d","s"," ","(","p","a","t","t","e","r",
     "n","_","c","o","n","t","e","n","t",","," ","s","o","u","r","c","e","_",
     "c","o","d","e",","," ","f","i","l","e","_","n","a","m","e",","," ","p",
     "a","t","t","e","r","n","_","n","a","m","e",")"," ","a","r","e"," ","r",
     "e","q","u","i","r","e","d">>

\* details of the 400s of upload_source
DetailSourceRequired ==
  <<"S","o","u","r","c","e"," ","c","o","d","e"," ","i","s"," ","r","e","q",
     "u","i","r","e","d">>

DetailFileRequired ==
  <<"F","i","l","e"," ","n","a","m","e"," ","i","s"," ","r","e","q","u","i",
     "r","e","d">>

DetailGoRequired ==
  <<"F","i","l","e"," ","m","u","s","t"," ","b","e"," ","a"," ","G","o"," ",
     "s","o","u","r","c","e"," ","f","i","l","e"," ","(",".","g","o",")">>

\* f"Source file '{file_name}' uploaded successfully"
UploadedHead ==
  <<"S","o","u","r","c","e"," ","f","i","l","e"," ","'">>

UploadedTail ==
  <<"'"," ","u","p","l","o","a","d","e","d"," ","s","u","c","c","e","s","s",
     "f","u","l","l","y">>

StatusSuccess ==
  <<"s","u","c","c","e","s","s">>

\* the key of the outbound body
K_contents ==
  <<"c","o","n","t","e","n","t","s">>

NoResponse == [kind |-> "none", status_code |-> 0, content |-> << >>]

Returned(body) == [kind |-> "json", status_code |-> 200, content |-> body]

HTTPException(status, detail) ==
  [kind |-> "HTTPException", status_code |-> status, content |-> detail]

Unhandled(exc) == [kind |-> "unhandled", status_code |-> 500, content |-> exc]

---------------------------------------------------------------------------
(* The requests and the upstream behaviours the model draws from.          *)

Reqs == 1..NumReqs

Pad(n) == [k \in 1..n |-> " "]

\* core with up to MaxPad blanks on either side
Padded(core) == {Pad(a) \o core \o Pad(b) : a, b \in 0..MaxPad}

\* empty and whitespace-only texts
Blanks == {<< >>, Pad(MaxPad), <<"\t", "\n">>}

PatternContents == Blanks \cup {Pad(MaxPad) \o <<"P", " ", "Q">> \o <<"\n">>}

SourceCodes == {<< >>, Pad(MaxPad), <<"f", "(", ")", "\n">>}

FileNames ==
  {<< >>, Pad(MaxPad)} \cup Padded(<<"a", ".", "g", "o">>)
    \cup {<<"a", ".", "t", "x", "t">>, <<".", "g", "o">>, <<"g", "o">>,
          <<"a", ".", "G", "O">>, <<"a", ".", "g", "o", ".", "t">>}

PatternNames == {<< >>, Pad(MaxPad)} \cup Padded(<<"N">>)

Contexts == {NoneValue, Some(<< >>), Some(Pad(MaxPad)), Some(<<" ", "c">>)}

PackageNames == {NoneValue, Some(<<"m">>)}

\* UTGenerationRequest
UTGenerationRequests ==
  [pattern_content : PatternContents, source_code : SourceCodes,
   file_name : FileNames, pattern_name : PatternNames,
   additional_context : Contexts]

\* SourceCodeUpload
SourceCodeUploads ==
  [source_code : SourceCodes, file_name : FileNames,
   package_name : PackageNames]

\* The few requests of the concurrent specification.
FewGenerationRequests ==
  [pattern_content : {Pad(MaxPad) \o <<"P", " ", "Q">> \o <<"\n">>},
   source_code : {<<"f", "(", ")", "\n">>},
   file_name : {<<"a", ".", "g", "o">>, <<"b", ".", "g", "o">>},
   pattern_name : {<< >>, Pad(MaxPad) \o <<"N">>},
   additional_context : {NoneValue}]

FewSourceCodeUploads ==
  [source_code : {<<"f", "(", ")", "\n">>},
   file_name : {<<"a", ".", "g", "o">>, <<"a", ".", "t", "x", "t">>},
   package_name : {NoneValue}]

\* {"candidates": [{"content": {"parts": [{"text": text}]}}]}
Candidates(text) ==
  JObj(<<Member(K_candidates,
     JArr(<<JObj(<<Member(K_content,
       JObj(<<Member(K_parts,
         JArr(<<JObj(<<Member(K_text, text)>>)>>))>>))>>)>>))>>)

\* {"error": e}
ErrorBody(e) == JObj(<<Member(K_error, e)>>)

LongText == <<"\"">> \o [k \in 1..LongLen |-> "x"]

\* What an upstream reply can carry: a body that is no JSON document, or
\* the JSON value r.json() decodes.
NotJson == [isJson |-> FALSE, json |-> JNull]

Json(j) == [isJson |-> TRUE, json |-> j]

Bodies ==
  << NotJson,
     Json(Candidates(JStr(<<"t", " ", "c">>))),
     Json(Candidates(JStr(Pad(MaxPad) \o <<"t", " ", "c">> \o <<"\n">>))),
     Json(Candidates(JStr(<<"\t">> \o <<"t">> \o Pad(MaxPad)))),
     Json(Candidates(JStr(<< >>))),
     Json(Candidates(JStr(Pad(MaxPad)))),
     Json(Candidates(JNum(7))),
     Json(Candidates(JNull)),
     Json(Candidates(JArr(<<JStr(<<"t">>)>>))),
     Json(JObj(<< >>)),
     Json(JObj(<<Member(K_candidates, JArr(<< >>))>>)),
     Json(JObj(<<Member(K_candidates, JStr(<<"a", "b">>))>>)),
     Json(JObj(<<Member(K_candidates, JArr(<<JObj(<< >>)>>))>>)),
     Json(JObj(<<Member(K_candidates,
        JArr(<<JObj(<<Member(K_content,
          JObj(<<Member(K_parts, JArr(<< >>))>>))>>)>>))>>)),
     Json(JObj(<<Member(K_candidates, JArr(<< >>)),
                 Member(K_message, JStr(LongText))>>)),
     Json(JArr(<< >>)),
     Json(JArr(<<Candidates(JStr(<<"t">>))>>)),
     Json(JNull),
     Json(JStr(<<"a", "b">>)),
     Json(JNum(0)),
     Json(ErrorBody(JObj(<<Member(K_message, JStr(<<"q", " ", "!">>))>>))),
     Json(ErrorBody(JObj(<<Member(K_message, JStr(Pad(MaxPad) \o <<"q">>))>>))),
     Json(ErrorBody(JObj(<<Member(K_message, JStr(<< >>))>>))),
     Json(ErrorBody(JObj(<<Member(K_message, JNull)>>))),
     Json(ErrorBody(JObj(<<Member(K_message, JNum(7))>>))),
     Json(ErrorBody(JObj(<< >>))),
     Json(ErrorBody(JNull)),
     Json(ErrorBody(JStr(<<"o", "o", "p", "s">>))),
     Json(ErrorBody(JArr(<<JStr(<<"q">>)>>))) >>

\* The bodies the concurrent specification draws from: two with text, one
\* with an error message.
FewBodies == {2, 3, 21}

Statuses == {HttpOk, 429, 503}

\* How the upstream answers the one POST: it cannot be reached, or it
\* answers with a status and a body (an index into Bodies) after keeping
\* the client waiting `elapsed` seconds for it.
Unreachable == [reachable |-> FALSE, elapsed |-> 0, status_code |-> 0, body |-> 1]

Answers(statuses, bodies, delays) ==
  [reachable : {TRUE}, elapsed : delays, status_code : statuses, body : bodies]

UpstreamBehaviours ==
  Answers(Statuses, DOMAIN Bodies, {1})
    \cup Answers({HttpOk}, {2}, {TimeoutSeconds + 1})
    \cup {Unreachable}

FewUpstreamBehaviours ==
  Answers({HttpOk, 503}, FewBodies, {1})
    \cup Answers({HttpOk}, {2}, {TimeoutSeconds + 1})
    \cup {Unreachable}

NoUpstream == [reachable |-> FALSE, elapsed |-> 0, status_code |-> 0, body |-> 0]

---------------------------------------------------------------------------
(* The handlers.                                                           *)

\* The local variables of one call of generate_unit_tests.
NoFrame ==
  [pattern_content |-> << >>, source_code |-> << >>, file_name |-> << >>,
   pattern_name |-> << >>, prompt |-> << >>]

NoPayload == [source_code |-> << >>, file_name |-> << >>]

\* any([...]) in place of all([...])
AnyRequired(pattern_content, source_code, file_name, pattern_name) ==
  \/ Truthy(pattern_content)
  \/ Truthy(source_code)
  \/ Truthy(file_name)
  \/ Truthy(pattern_name)

\* all([pattern_content, source_code, file_name, pattern_name])
AllRequired(pattern_content, source_code, file_name, pattern_name) ==
  /\ Truthy(pattern_content)
  /\ Truthy(source_code)
  /\ Truthy(file_name)
  /\ Truthy(pattern_name)

\* the placeholder only for None: (x if x is not None else "None provided")
ContextSlotIfNone(additional_context) ==
  IF additional_context.isNone THEN FallbackContext ELSE additional_context.v

\* {payload.additional_context or "None provided"}
ContextSlot(additional_context) == OrDefault(additional_context, FallbackContext)

\* prompt = f"""..."""
RenderPrompt(pattern_name, pattern_content, file_name, source_code, context) ==
  Seg1 \o pattern_name \o Seg2 \o pattern_content \o Seg3 \o file_name
    \o Seg4 \o source_code \o Seg5 \o context \o Seg6

\* body = {"contents": [{"parts": [{"text": prompt}]}]}
RequestBody(prompt) ==
  JObj(<<Member(K_contents,
     JArr(<<JObj(<<Member(K_parts,
       JArr(<<JObj(<<Member(K_text, JStr(prompt))>>)>>))>>)>>))>>)

\* msg = (data.get("error") or {}).get("message") or "Upstream error"
\* raise HTTPException(status_code=r.status_code, detail=msg)
UpstreamFailure(status_code, data) ==
  LET error == DictGet(data, K_error)
      object == IF error.exc = "none" /\ TruthyValue(error.v)
                  THEN error.v ELSE JObj(<< >>)
      message == DictGet(object, K_message)
  IN  IF error.exc # "none" THEN Unhandled(error.exc)
      ELSE IF message.exc # "none" THEN Unhandled(message.exc)
      ELSE HTTPException(status_code,
             IF TruthyValue(message.v) THEN message.v ELSE JStr(FallbackMessage))

\* data["candidates"][0]["content"]["parts"][0]["text"].strip()
ExtractText(data) ==
  LET candidates == GetItem(data, K_candidates)
      candidate == IF candidates.exc # "none" THEN candidates
                   ELSE GetFirst(candidates.v)
      content == IF candidate.exc # "none" THEN candidate
                 ELSE GetItem(candidate.v, K_content)
      parts == IF content.exc # "none" THEN content
               ELSE GetItem(content.v, K_parts)
      part == IF parts.exc # "none" THEN parts ELSE GetFirst(parts.v)
      text == IF part.exc # "none" THEN part ELSE GetItem(part.v, K_text)
  IN  IF text.exc # "none" THEN text ELSE StripValue(text.v)

\* the serialization without the [:800]
WholeDiagnostic(data) == DiagPrefix \o json_dumps(data)

\* f"Unexpected API response: {json.dumps(data)[:800]}"
Diagnostic(data) == DiagPrefix \o Prefix(json_dumps(data), DiagLimit)

\* One frame for all calls, as if the handler kept its variables at module
\* level: the frame of the latest call that has started.
SharedFrame(i) ==
  locals[CHOOSE j \in Reqs :
           /\ endpoint[j] = "/generate-ut"
           /\ \A k \in Reqs : endpoint[k] = "/generate-ut" => k <= j]

\* The frame a call reads its local variables from.
FrameOf(i) == locals[i]

\* try: unit_tests = ... except Exception: raise HTTPException(502, ...)
\* return {"unit_tests": ..., "pattern_used": ..., "file_analyzed": ...}
Extracted(frame, data) ==
  LET unit_tests == ExtractText(data)
  IN  IF unit_tests.exc # "none"
        THEN HTTPException(BadGateway, JStr(Diagnostic(data)))
        ELSE Returned([unit_tests |-> unit_tests.v.v,
                       pattern_used |-> frame.pattern_name,
                       file_analyzed |-> frame.file_name])

\* r = await client.post(...): what the client hands back for an upstream
\* behaviour u, under httpx.Timeout(60.0, read=60.0).
Post(u) ==
  IF ~u.reachable THEN Raise("ConnectError")
  ELSE IF u.elapsed > TimeoutSeconds THEN Raise("ReadTimeout")
  ELSE Ok(u)

\* Lines 152-167: from the reply of the POST to the end of the handler.
AfterPost(frame, u) ==
  LET r == Post(u)
  IN  IF r.exc # "none" THEN Unhandled(r.exc)
      ELSE IF ~Bodies[u.body].isJson THEN Unhandled("JSONDecodeError")
      ELSE IF u.status_code # HttpOk
        THEN UpstreamFailure(u.status_code, Bodies[u.body].json)
        ELSE Extracted(frame, Bodies[u.body].json)

Init ==
  /\ pc = [i \in Reqs |-> "idle"]
  /\ endpoint = [i \in Reqs |-> "none"]
  /\ payload = [i \in Reqs |-> NoPayload]
  /\ locals = [i \in Reqs |-> NoFrame]
  /\ outbound = [i \in Reqs |-> << >>]
  /\ upstream = [i \in Reqs |-> NoUpstream]
  /\ response = [i \in Reqs |-> NoResponse]
  /\ overlapped = [i \in Reqs |-> {}]

\* POST /upload-source
upload_source(i, uploads) ==
  /\ pc[i] = "idle"
  /\ \E p \in uploads :
       LET source_code == Strip(p.source_code)
           file_name == Strip(p.file_name)
       IN  /\ payload' = [payload EXCEPT ![i] = p]
           /\ response' = [response EXCEPT ![i] =
                IF ~Truthy(source_code)
                  THEN HTTPException(BadRequest, JStr(DetailSourceRequired))
                ELSE IF ~Truthy(file_name)
                  THEN HTTPException(BadRequest, JStr(DetailFileRequired))
                ELSE IF ~EndsWith(file_name, GoSuffix)
                  THEN HTTPException(BadRequest, JStr(DetailGoRequired))
                ELSE Returned([status |-> StatusSuccess,
                               message |-> UploadedHead \o file_name \o UploadedTail,
                               file_name |-> file_name,
                               package_name |-> p.package_name])]
  /\ endpoint' = [endpoint EXCEPT ![i] = "/upload-source"]
  /\ pc' = [pc EXCEPT ![i] = "done"]
  /\ UNCHANGED <<locals, outbound, upstream, overlapped>>

\* POST /generate-ut, lines 109-152: from the request to the awaited POST.
generate_unit_tests_call(i, requests) ==
  /\ pc[i] = "idle"
  /\ \E p \in requests :
       LET pattern_content == Strip(p.pattern_content)
           source_code == Strip(p.source_code)
           file_name == Strip(p.file_name)
           pattern_name == Strip(p.pattern_name)
           prompt == RenderPrompt(pattern_name, pattern_content, file_name,
                                  source_code, ContextSlot(p.additional_context))
       IN  /\ payload' = [payload EXCEPT ![i] = p]
           /\ IF ~AllRequired(pattern_content, source_code, file_name, pattern_name)
                THEN /\ response' = [response EXCEPT ![i] =
                          HTTPException(BadRequest, JStr(DetailAllFields))]
                     /\ pc' = [pc EXCEPT ![i] = "done"]
                     /\ locals' = [locals EXCEPT ![i] =
                          [pattern_content |-> pattern_content,
                           source_code |-> source_code,
                           file_name |-> file_name,
                           pattern_name |-> pattern_name,
                           prompt |-> << >>]]
                     /\ UNCHANGED outbound
                ELSE /\ locals' = [locals EXCEPT ![i] =
                          [pattern_content |-> pattern_content,
                           source_code |-> source_code,
                           file_name |-> file_name,
                           pattern_name |-> pattern_name,
                           prompt |-> prompt]]
                     /\ outbound' = [outbound EXCEPT ![i] =
                          Append(@, RequestBody(prompt))]
                     /\ pc' = [pc EXCEPT ![i] = "awaiting"]
                     /\ UNCHANGED response
  /\ endpoint' = [endpoint EXCEPT ![i] = "/generate-ut"]
  /\ UNCHANGED <<upstream, overlapped>>

\* POST /generate-ut, lines 152-167: the POST completes and the handler ends.
generate_unit_tests_resume(i, behaviours) ==
  /\ pc[i] = "awaiting"
  /\ \E u \in behaviours :
       /\ upstream' = [upstream EXCEPT ![i] = u]
       /\ response' = [response EXCEPT ![i] = AfterPost(FrameOf(i), u)]
  /\ overlapped' = [overlapped EXCEPT ![i] =
       {j \in Reqs \ {i} : pc[j] = "awaiting"}]
  /\ pc' = [pc EXCEPT ![i] = "done"]
  /\ UNCHANGED <<endpoint, payload, locals, outbound>>

\* One request, every input and every upstream behaviour.
Next ==
  \/ upload_source(1, SourceCodeUploads)
  \/ generate_unit_tests_call(1, UTGenerationRequests)
  \/ generate_unit_tests_resume(1, UpstreamBehaviours)

Spec == Init /\ [][Next]_vars

\* NumReqs requests in flight at once, interleaved at the await.
NextConc ==
  \E i \in Reqs :
    \/ upload_source(i, FewSourceCodeUploads)
    \/ generate_unit_tests_call(i, FewGenerationRequests)
    \/ generate_unit_tests_resume(i, FewUpstreamBehaviours)

SpecConc == Init /\ [][NextConc]_vars

---------------------------------------------------------------------------
(* What the properties are stated with: blankness, trimming and            *)
(* containment said directly, and the upstream payload read by its shape.  *)

IsBlank(s) == \A k \in DOMAIN s : s[k] \in Whitespace

\* t is s without its leading and trailing whitespace
IsTrimOf(t, s) ==
  /\ Len(t) > 0 => t[1] \notin Whitespace /\ t[Len(t)] \notin Whitespace
  /\ \E a \in 0..Len(s) :
       /\ a + Len(t) <= Len(s)
       /\ \A k \in 1..Len(t) : s[a + k] = t[k]
       /\ \A k \in 1..a : s[k] \in Whitespace
       /\ \A k \in (a + Len(t) + 1)..Len(s) : s[k] \in Whitespace

\* the piece of s that is s without its leading and trailing whitespace
TrimOf(s) ==
  CHOOSE t \in {SubSeq(s, a + 1, b) : a, b \in 0..Len(s)} : IsTrimOf(t, s)

\* s ends with x
EndsIn(s, x) ==
  /\ Len(x) <= Len(s)
  /\ \A k \in 1..Len(x) : s[Len(s) - Len(x) + k] = x[k]

\* x occurs in s
Contains(s, x) ==
  \E a \in 0..(Len(s) - Len(x)) : \A k \in 1..Len(x) : s[a + k] = x[k]

IsGenerate(i) == endpoint[i] = "/generate-ut"

IsUpload(i) == endpoint[i] = "/upload-source"

\* one of the four required fields of request i is empty or whitespace-only
SomeFieldBlank(i) ==
  \/ IsBlank(payload[i].pattern_content)
  \/ IsBlank(payload[i].source_code)
  \/ IsBlank(payload[i].file_name)
  \/ IsBlank(payload[i].pattern_name)

\* request i was valid, its POST was answered in time, and the handler is done
Answered(i) ==
  /\ IsGenerate(i)
  /\ pc[i] = "done"
  /\ ~SomeFieldBlank(i)
  /\ upstream[i].reachable
  /\ upstream[i].elapsed <= TimeoutSeconds

\* j is an object with member key whose value has type t
HasMember(j, key, t) ==
  /\ j.t = "obj"
  /\ \E n \in DOMAIN j.v : j.v[n].k = key /\ j.v[n].val.t = t

\* j is a non-empty array whose first item is an object
StartsWithObject(j) == j.t = "arr" /\ Len(j.v) > 0 /\ j.v[1].t = "obj"

\* j has a string at candidates[0].content.parts[0].text
HasText(j) ==
  /\ HasMember(j, K_candidates, "arr")
  /\ StartsWithObject(Lookup(j, K_candidates))
  /\ HasMember(Lookup(j, K_candidates).v[1], K_content, "obj")
  /\ HasMember(Lookup(Lookup(j, K_candidates).v[1], K_content), K_parts, "arr")
  /\ StartsWithObject(Lookup(Lookup(Lookup(j, K_candidates).v[1], K_content), K_parts))
  /\ HasMember(Lookup(Lookup(Lookup(j, K_candidates).v[1], K_content), K_parts).v[1],
               K_text, "str")

\* that string
TextOf(j) ==
  Lookup(Lookup(Lookup(Lookup(j, K_candidates).v[1], K_content), K_parts).v[1],
         K_text).v

\* the body and the payload the upstream answered request i with
BodyOf(i) == Bodies[upstream[i].body]

\* the upstream answered request i with status 200 and a payload with text
SuccessWithText(i) ==
  /\ Answered(i)
  /\ upstream[i].status_code = HttpOk
  /\ BodyOf(i).isJson
  /\ HasText(BodyOf(i).json)

---------------------------------------------------------------------------
(* C1 *)

\* C1: a /generate-ut request with at least one of pattern_content,
\* source_code, file_name, pattern_name empty or whitespace-only is answered
\* 400, and no outbound call is made at any point of handling it.
C1_BlankFieldRejected ==
  \A i \in Reqs :
    (IsGenerate(i) /\ SomeFieldBlank(i))
      => /\ pc[i] = "done"
         /\ response[i].kind = "HTTPException"
         /\ response[i].status_code = BadRequest
         /\ outbound[i] = << >>
         /\ upstream[i] = NoUpstream

\* A request whose only blank field is a whitespace-only pattern_name has
\* been handled.
C1_Witness ==
  \E i \in Reqs :
    /\ IsGenerate(i)
    /\ pc[i] = "done"
    /\ Len(payload[i].pattern_name) > 0
    /\ IsBlank(payload[i].pattern_name)
    /\ ~IsBlank(payload[i].pattern_content)
    /\ ~IsBlank(payload[i].source_code)
    /\ ~IsBlank(payload[i].file_name)
    /\ response[i].status_code = BadRequest

---------------------------------------------------------------------------
(* C2 *)

\* C2 as stated: when the upstream returns success with text T, unit_tests
\* is T trimmed and pattern_used and file_analyzed are the pattern_name and
\* file_name the caller sent, surrounding whitespace included.
C2_EchoExactlyAsSent ==
  \A i \in Reqs :
    SuccessWithText(i)
      => /\ response[i].kind = "json"
         /\ IsTrimOf(response[i].content.unit_tests, TextOf(BodyOf(i).json))
         /\ response[i].content.pattern_used = payload[i].pattern_name
         /\ response[i].content.file_analyzed = payload[i].file_name

\* C2 as amended: when the upstream returns success with text T, unit_tests
\* is T trimmed and pattern_used and file_analyzed are the caller's
\* pattern_name and file_name with their surrounding whitespace removed.
C2_EchoTrimmed ==
  \A i \in Reqs :
    SuccessWithText(i)
      => /\ response[i].kind = "json"
         /\ response[i].status_code = HttpOk
         /\ IsTrimOf(response[i].content.unit_tests, TextOf(BodyOf(i).json))
         /\ IsTrimOf(response[i].content.pattern_used, payload[i].pattern_name)
         /\ IsTrimOf(response[i].content.file_analyzed, payload[i].file_name)

\* A success whose text and whose names all came with surrounding
\* whitespace.
C2_Witness ==
  \E i \in Reqs :
    /\ SuccessWithText(i)
    /\ response[i].kind = "json"
    /\ Len(TextOf(BodyOf(i).json)) > 0
    /\ IsSpace(TextOf(BodyOf(i).json)[1])
    /\ IsSpace(TextOf(BodyOf(i).json)[Len(TextOf(BodyOf(i).json))])
    /\ Len(response[i].content.unit_tests) > 0
    /\ IsSpace(payload[i].pattern_name[1])
    /\ IsSpace(payload[i].file_name[Len(payload[i].file_name)])

---------------------------------------------------------------------------
(* C3 *)

\* the upstream's error message for request i, when its payload is an
\* object whose "error" is an object with a "message"
HasErrorMessage(i) ==
  /\ BodyOf(i).isJson
  /\ HasMember(BodyOf(i).json, K_error, "obj")
  /\ HasKey(Lookup(BodyOf(i).json, K_error), K_message)

ErrorMessageOf(i) == Lookup(Lookup(BodyOf(i).json, K_error), K_message)

\* C3: when the upstream answers a valid request with a non-success status
\* s, the handler fails with an UpstreamError (an HTTPException) of status s
\* whose message is the upstream error object's message unchanged when there
\* is one and the fallback message otherwise; no success is produced.
C3_UpstreamErrorMirrored ==
  \A i \in Reqs :
    (Answered(i) /\ upstream[i].status_code # HttpOk)
      => /\ response[i].kind = "HTTPException"
         /\ response[i].status_code = upstream[i].status_code
         /\ IF HasErrorMessage(i)
              THEN /\ response[i].content.t = ErrorMessageOf(i).t
                   /\ response[i].content.v = ErrorMessageOf(i).v
              ELSE /\ response[i].content.t = "str"
                   /\ response[i].content.v = FallbackMessage

---------------------------------------------------------------------------
(* C4 *)

---------------------------------------------------------------------------
(* C5 *)

\* the response of request i is the full normalized response
FullResponse(i) ==
  /\ response[i].kind = "json"
  /\ DOMAIN response[i].content = {"unit_tests", "pattern_used", "file_analyzed"}

\* the response of request i is one of the three typed failures
TypedFailure(i) ==
  /\ response[i].kind = "HTTPException"
  /\ \/ response[i].status_code = BadRequest /\ outbound[i] = << >>
     \/ response[i].status_code = BadGateway
     \/ response[i].status_code = upstream[i].status_code

\* C5: every /generate-ut call makes at most one outbound call and, once
\* handled, has ended in a full normalized response or in one typed failure
\* among InvalidRequest, UpstreamError and MalformedUpstreamResponse,
\* whatever the upstream did (any status, any body, a transport failure).
C5_OneCallOneTypedOutcome ==
  \A i \in Reqs :
    IsGenerate(i)
      => /\ Len(outbound[i]) <= 1
         /\ pc[i] = "done" => (FullResponse(i) \/ TypedFailure(i))

---------------------------------------------------------------------------
(* C6 *)

\* C6: when the outbound call of a valid request takes longer than the
\* fixed timeout of 60, the handler fails with the typed UpstreamError /
\* Timeout failure, not with a success and not with an untyped failure.
C6_TimeoutIsTypedFailure ==
  \A i \in Reqs :
    (/\ IsGenerate(i)
     /\ pc[i] = "done"
     /\ upstream[i].reachable
     /\ upstream[i].elapsed > TimeoutSeconds)
      => /\ response[i].kind = "HTTPException"
         /\ response[i].status_code # BadRequest

---------------------------------------------------------------------------
(* C7 *)

\* C7: the unit_tests of every response /generate-ut returns is non-empty
\* text without leading or trailing whitespace, taken from the payload.
C7_UnitTestsNonEmpty ==
  \A i \in Reqs :
    (IsGenerate(i) /\ response[i].kind = "json")
      => /\ Len(response[i].content.unit_tests) > 0
         /\ ~IsSpace(response[i].content.unit_tests[1])
         /\ ~IsSpace(response[i].content.unit_tests[Len(response[i].content.unit_tests)])
         /\ HasText(BodyOf(i).json)
         /\ IsTrimOf(response[i].content.unit_tests, TextOf(BodyOf(i).json))

---------------------------------------------------------------------------
(* C8 *)

\* the prompt in the body request i POSTed
PromptOf(i) == outbound[i][1].v[1].val.v[1].v[1].val.v[1].v[1].val.v

\* request i POSTed exactly one body, {"contents": [{"parts": [{"text": s}]}]}
\* with s a string and nothing else in it
PostedOnePrompt(i) ==
  /\ Len(outbound[i]) = 1
  /\ outbound[i][1].t = "obj" /\ Len(outbound[i][1].v) = 1
  /\ outbound[i][1].v[1].k = K_contents
  /\ outbound[i][1].v[1].val.t = "arr" /\ Len(outbound[i][1].v[1].val.v) = 1
  /\ outbound[i][1].v[1].val.v[1].t = "obj"
  /\ Len(outbound[i][1].v[1].val.v[1].v) = 1
  /\ outbound[i][1].v[1].val.v[1].v[1].k = K_parts
  /\ outbound[i][1].v[1].val.v[1].v[1].val.t = "arr"
  /\ Len(outbound[i][1].v[1].val.v[1].v[1].val.v) = 1
  /\ outbound[i][1].v[1].val.v[1].v[1].val.v[1].t = "obj"
  /\ Len(outbound[i][1].v[1].val.v[1].v[1].val.v[1].v) = 1
  /\ outbound[i][1].v[1].val.v[1].v[1].val.v[1].v[1].k = K_text
  /\ outbound[i][1].v[1].val.v[1].v[1].val.v[1].v[1].val.t = "str"

\* the prompt of request i holds x, trimmed, right after the literal `before`
HoldsTrimmed(i, before, x) == Contains(PromptOf(i), before \o TrimOf(x))

\* the prompt of request i ends with the context section filled with slot
ContextSectionIs(i, slot) == EndsIn(PromptOf(i), Seg5 \o slot \o Seg6)

\* a valid /generate-ut request i has reached its POST
Posted(i) == IsGenerate(i) /\ pc[i] # "idle" /\ ~SomeFieldBlank(i)

\* the prompt of request i is the template's literals around the four
\* trimmed fields and `slot`, in the template's order: nothing in it comes
\* from anywhere but the request
PromptIsTemplateOf(i, slot) ==
  PromptOf(i) = Seg1 \o TrimOf(payload[i].pattern_name)
                  \o Seg2 \o TrimOf(payload[i].pattern_content)
                  \o Seg3 \o TrimOf(payload[i].file_name)
                  \o Seg4 \o TrimOf(payload[i].source_code)
                  \o Seg5 \o slot \o Seg6

\* the prompt of request i holds the four trimmed fields and is what was POSTed
PromptHoldsFields(i) ==
  /\ PostedOnePrompt(i)
  /\ HoldsTrimmed(i, Seg1, payload[i].pattern_name)
  /\ HoldsTrimmed(i, Seg2, payload[i].pattern_content)
  /\ HoldsTrimmed(i, Seg3, payload[i].file_name)
  /\ HoldsTrimmed(i, Seg4, payload[i].source_code)

\* C8 as stated: the prompt of a valid request holds the trimmed pattern
\* name, pattern content, file name and source code, holds the additional
\* context when one is supplied, and holds the fallback placeholder exactly
\* when the additional context is absent; it is the sole content of the body.
C8_PlaceholderIffAbsent ==
  \A i \in Reqs :
    Posted(i)
      => /\ PromptHoldsFields(i)
         /\ ~payload[i].additional_context.isNone
              => ContextSectionIs(i, payload[i].additional_context.v)
         /\ ContextSectionIs(i, FallbackContext)
              <=> payload[i].additional_context.isNone

\* C8 as amended: the prompt of a valid request holds the trimmed pattern
\* name, pattern content, file name and source code; its context section is
\* the additional context, unchanged, when that is supplied and not empty,
\* and the fallback placeholder when it is absent or the empty string; the
\* prompt is the sole content of the one body POSTed.
C8_PlaceholderWhenAbsentOrEmpty ==
  \A i \in Reqs :
    Posted(i)
      => /\ PromptHoldsFields(i)
         /\ IF payload[i].additional_context.isNone
                 \/ payload[i].additional_context.v = << >>
              THEN /\ ContextSectionIs(i, FallbackContext)
                   /\ PromptIsTemplateOf(i, FallbackContext)
              ELSE /\ ContextSectionIs(i, payload[i].additional_context.v)
                   /\ PromptIsTemplateOf(i, payload[i].additional_context.v)

\* A valid request whose additional context is the empty string has been
\* POSTed, from fields that came with surrounding whitespace.
C8_Witness ==
  \E i \in Reqs :
    /\ Posted(i)
    /\ pc[i] = "awaiting"
    /\ ~payload[i].additional_context.isNone
    /\ payload[i].additional_context.v = << >>
    /\ IsSpace(payload[i].pattern_name[1])
    /\ Len(PromptOf(i)) > Len(Seg1) + Len(Seg6)

---------------------------------------------------------------------------
(* C9 *)

\* t ends with the three characters ".go"
EndsInDotGo(t) ==
  /\ Len(t) >= 3
  /\ t[Len(t) - 2] = "." /\ t[Len(t) - 1] = "g" /\ t[Len(t)] = "o"

\* the trimmed file name of request i ends with ".go"
TrimmedNameEndsInDotGo(i) == EndsInDotGo(TrimOf(payload[i].file_name))

\* C9: /upload-source answers 400 exactly when source_code is empty after
\* trimming, or file_name is empty after trimming, or the trimmed file_name
\* does not end with ".go"; otherwise it answers success with the file name
\* and the package name; it makes no outbound call either way.
C9_UploadSource ==
  \A i \in Reqs :
    IsUpload(i)
      => /\ pc[i] = "done"
         /\ outbound[i] = << >>
         /\ upstream[i] = NoUpstream
         /\ IF \/ IsBlank(payload[i].source_code)
               \/ IsBlank(payload[i].file_name)
               \/ ~TrimmedNameEndsInDotGo(i)
              THEN /\ response[i].kind = "HTTPException"
                   /\ response[i].status_code = BadRequest
              ELSE /\ response[i].kind = "json"
                   /\ response[i].status_code = HttpOk
                   /\ response[i].content.status = StatusSuccess
                   /\ response[i].content.file_name = TrimOf(payload[i].file_name)
                   /\ response[i].content.package_name = payload[i].package_name

\* An upload whose file name has ".go" inside but not at its end has been
\* refused.
C9_Witness ==
  \E i \in Reqs :
    /\ IsUpload(i)
    /\ pc[i] = "done"
    /\ ~IsBlank(payload[i].source_code)
    /\ Contains(payload[i].file_name, GoSuffix)
    /\ ~TrimmedNameEndsInDotGo(i)
    /\ response[i].status_code = BadRequest

---------------------------------------------------------------------------
(* C10 *)

\* What generate_unit_tests answers request p when the upstream behaves as
\* u and no other request is handled: lines 109-167 in one piece.
Alone(p, u) ==
  LET frame == [pattern_content |-> Strip(p.pattern_content),
                source_code |-> Strip(p.source_code),
                file_name |-> Strip(p.file_name),
                pattern_name |-> Strip(p.pattern_name)]
  IN  IF \/ frame.pattern_content = << >> \/ frame.source_code = << >>
         \/ frame.file_name = << >> \/ frame.pattern_name = << >>
        THEN HTTPException(BadRequest, JStr(DetailAllFields))
        ELSE AfterPost(frame, u)

SameResponse(a, b) ==
  /\ a.kind = b.kind
  /\ a.status_code = b.status_code
  /\ IF a.kind = "HTTPException"
       THEN a.content.t = b.content.t /\ a.content.v = b.content.v
       ELSE a.content = b.content

\* C10: with several /generate-ut requests in flight at once, interleaved
\* at the awaited call in any order, every request is answered what it
\* would be answered alone, from its own request and its own upstream reply.
C10_NoSharedState ==
  \A i \in Reqs :
    (IsGenerate(i) /\ pc[i] = "done")
      => SameResponse(response[i], Alone(payload[i], upstream[i]))

\* Two requests with different file names were awaiting their POSTs at the
\* same time and both have been answered with a success.
C10_Witness ==
  \E i, j \in Reqs :
    /\ i # j
    /\ IsGenerate(i) /\ IsGenerate(j)
    /\ pc[i] = "done" /\ pc[j] = "done"
    /\ j \in overlapped[i]
    /\ response[i].kind = "json" /\ response[j].kind = "json"
    /\ payload[i].file_name # payload[j].file_name

====
